---- MODULE Spec2Model ----
(***************************************************************************)
(* A model of the chat handler of packages/api/src/functions/chat-post.ts: *)
(* postChat (validation, provider selection, the outbound completion call, *)
(* the two response shapes, the catch-all) and createJsonStream (the lazy  *)
(* NDJSON transform of the provider's chunk stream).  One behaviour is one *)
(* invocation of postChat followed, in streaming mode, by the consumption  *)
(* of the returned stream.                                                 *)
(***************************************************************************)
EXTENDS Naturals, Sequences, FiniteSets

VARIABLES
    stream,        \* postChat's first argument (bound by app.http)
    body,          \* what request.json() yields for the inbound request
    env,           \* process.env, read at call time
    pc,            \* where postChat is: "start", "awaitCreate", "returned"
    openai,        \* the provider client constructed ("none" before)
    calls,         \* the chat.completions.create calls issued, in order
    logs,          \* context.log / context.error entries, in order
    response,      \* what chat.completions.create resolved with (non-streaming)
    httpResponse,  \* the HttpResponseInit postChat returned
    thrown,        \* the errors thrown so far, each with the function it left
    gen,           \* createJsonStream's generator state
    pulls,         \* next() calls the stream's consumer made on the generator
    requested,     \* next() calls the generator made on the provider's stream
    consumed,      \* provider chunks delivered to the generator, in order
    output         \* lines the generator yielded to its consumer, in order

vars == <<stream, body, env, pc, openai, calls, logs, response, httpResponse,
          thrown, gen, pulls, requested, consumed, output>>

----------------------------------------------------------------------------
(* Bounds of the model. *)

MaxMessages == 2
MaxChunks == 3

----------------------------------------------------------------------------
(* JavaScript values: a string, undefined or null.  `text` is a TLA+ string *)
(* for environment variables and message contents, and a sequence of        *)
(* characters for the text deltas that JSON.stringify has to escape.        *)

JsUndefined == [kind |-> "undefined", text |-> ""]
JsString(s) == [kind |-> "string", text |-> s]

DeltaUndefined == [kind |-> "undefined", text |-> <<>>]
DeltaNull == [kind |-> "null", text |-> <<>>]
DeltaString(cs) == [kind |-> "string", text |-> cs]

\* JavaScript truthiness of such a value: only a non-empty string is truthy.
Truthy(v) == v.kind = "string" /\ Len(v.text) > 0

----------------------------------------------------------------------------
(* Constants of the source. *)

systemPrompt == "systemPrompt"
InvalidMessagesBody == "Invalid or missing messages in the request body"
UnavailableBody == "Service temporarily unavailable. Please try again later."
NoProviderMessage == "No OpenAI API key or Azure OpenAI deployment provided"
DefaultModel == "gpt-4o-mini"
Temperature == "0.7"

----------------------------------------------------------------------------
(* The inputs of one invocation. *)

\* A conversation turn {role, content}; content may be missing or empty.
Turns ==
    { [role |-> "user", content |-> JsString("hi")],
      [role |-> "system", content |-> JsString("override")],
      [role |-> "user", content |-> JsString("")],
      [role |-> "user", content |-> JsUndefined] }

MessageLists == UNION { [1..n -> Turns] : n \in 0..MaxMessages }

\* request.json() rejects (the body is not JSON), resolves with null, or
\* resolves with an object that has a messages list or none.
Bodies ==
    { [json |-> "rejects", hasMessages |-> FALSE, messages |-> <<>>],
      [json |-> "null", hasMessages |-> FALSE, messages |-> <<>>],
      [json |-> "object", hasMessages |-> FALSE, messages |-> <<>>] }
    \cup { [json |-> "object", hasMessages |-> TRUE, messages |-> ms] :
               ms \in MessageLists }

Envs ==
    [ OPENAI_API_KEY : {JsUndefined, JsString(""), JsString("sk-key")},
      OPENAI_MODEL_NAME : {JsUndefined, JsString(""), JsString("gpt-4o")},
      AZURE_OPENAI_API_DEPLOYMENT_NAME :
          {JsUndefined, JsString(""), JsString("my-deployment")},
      MS_DEFENDER_ENABLED : {JsUndefined, JsString("true")} ]

\* What the provider can resolve a non-streaming call with.
Completions ==
    { [choices |-> <<>>],
      [choices |-> <<[message |-> [content |-> JsString("Hello")]]>>],
      [choices |-> <<[message |-> [content |-> [kind |-> "null", text |-> ""]]]>>],
      [choices |-> <<[message |-> [content |-> JsString("Hello")]],
                     [message |-> [content |-> JsString("Other")]]>>] }

\* The events of the provider's stream: no choices, a first choice whose
\* delta has no content (role-only), null or empty content, or a text.
Chunks ==
    { [choices |-> <<>>] }
    \cup { [choices |-> <<[delta |-> [content |-> c]]>>] :
               c \in { DeltaUndefined, DeltaNull, DeltaString(<<>>),
                       DeltaString(<<"H", "e", "l">>), DeltaString(<<"l", "o">>),
                       DeltaString(<<"a", "\"", "\\", "\n">>) } }

NoResponse == [pending |-> TRUE]
NoCompletion == [choices |-> <<>>, pending |-> TRUE]

----------------------------------------------------------------------------
(* postChat *)

\* Variant: the last turn's content is not looked at.
InvalidMessagesLastTurnUnchecked(b) ==
    \/ ~b.hasMessages
    \/ Len(b.messages) = 0

\* if (!messages || messages.length === 0 || !messages.at(-1)?.content)
InvalidMessages(b) ==
    \/ ~b.hasMessages
    \/ Len(b.messages) = 0
    \/ ~Truthy(b.messages[Len(b.messages)].content)

\* Variant: the two branches in the opposite order.
SelectAzureFirst(e) ==
    IF Truthy(e.AZURE_OPENAI_API_DEPLOYMENT_NAME)
    THEN [client |-> "AzureOpenAI", model |-> e.AZURE_OPENAI_API_DEPLOYMENT_NAME.text,
          log |-> "Using Azure OpenAI"]
    ELSE IF Truthy(e.OPENAI_API_KEY)
    THEN [client |-> "OpenAI",
          model |-> IF Truthy(e.OPENAI_MODEL_NAME)
                    THEN e.OPENAI_MODEL_NAME.text ELSE DefaultModel,
          log |-> "Using OpenAI API"]
    ELSE [client |-> "none", model |-> "", log |-> ""]

\* Variant: the direct provider as the fallback instead of the throw.
SelectOpenAIByDefault(e) ==
    IF Truthy(e.AZURE_OPENAI_API_DEPLOYMENT_NAME) /\ ~Truthy(e.OPENAI_API_KEY)
    THEN [client |-> "AzureOpenAI", model |-> e.AZURE_OPENAI_API_DEPLOYMENT_NAME.text,
          log |-> "Using Azure OpenAI"]
    ELSE [client |-> "OpenAI",
          model |-> IF Truthy(e.OPENAI_MODEL_NAME)
                    THEN e.OPENAI_MODEL_NAME.text ELSE DefaultModel,
          log |-> "Using OpenAI API"]

\* The if / else if / else chain that picks the client and the model;
\* client "none" is the branch that throws.
SelectProvider(e) ==
    IF Truthy(e.OPENAI_API_KEY)
    THEN [client |-> "OpenAI",
          model |-> IF Truthy(e.OPENAI_MODEL_NAME)
                    THEN e.OPENAI_MODEL_NAME.text ELSE DefaultModel,
          log |-> "Using OpenAI API"]
    ELSE IF Truthy(e.AZURE_OPENAI_API_DEPLOYMENT_NAME)
    THEN [client |-> "AzureOpenAI", model |-> e.AZURE_OPENAI_API_DEPLOYMENT_NAME.text,
          log |-> "Using Azure OpenAI"]
    ELSE [client |-> "none", model |-> "", log |-> ""]

\* getMsDefenderUserJson(request): the security context derived from the
\* inbound request.
getMsDefenderUserJson == JsString("userSecurityContext")

\* userSecurityContext: undefined unless MS_DEFENDER_ENABLED is set.
UserSecurityContext(e) ==
    IF Truthy(e.MS_DEFENDER_ENABLED) THEN getMsDefenderUserJson ELSE JsUndefined

\* Variant: the caller's messages alone.
MessagesWithoutSystemPrompt(messages) == messages

\* messages: [{ role: 'system', content: systemPrompt }, ...messages]
OutboundMessages(messages) ==
    <<[role |-> "system", content |-> JsString(systemPrompt)]>> \o messages

\* The argument of openai.chat.completions.create.
CreateParams(b, e, s) ==
    [ client |-> SelectProvider(e).client,
      messages |-> OutboundMessages(b.messages),
      temperature |-> Temperature,
      model |-> SelectProvider(e).model,
      stream |-> s,
      user_security_context |-> UserSecurityContext(e) ]

\* The return value of the validation branch.
InvalidMessagesResponse == [status |-> 400, body |-> InvalidMessagesBody]

\* Variant: the catch block answering as the validation branch does.
CatchResponseAsClientError == [status |-> 400, body |-> InvalidMessagesBody]

\* The catch block: what it logs and what it returns.
CatchLog(message) ==
    [level |-> "error",
     msg |-> "Error when processing chat-post request: " \o message]

CatchResponse == [status |-> 500, body |-> UnavailableBody]

\* Variant: the last choice instead of the first.
LastChoiceBody(r) ==
    [jsonBody |->
        [message |-> [content |-> r.choices[Len(r.choices)].message.content,
                      role |-> "assistant"]]]

\* The non-streaming return value, for a completion with a first choice.
CompletionBody(r) ==
    [jsonBody |->
        [message |-> [content |-> r.choices[1].message.content,
                      role |-> "assistant"]]]

\* The streaming return value.
StreamResponse ==
    [headers |-> [ContentType |-> "application/x-ndjson",
                  TransferEncoding |-> "chunked"],
     body |-> "jsonStream"]

\* The state when the runtime invokes postChat, for a request and an
\* environment of the given sets.
Invoked(streams, bodies, envs) ==
    /\ stream \in streams
    /\ body \in bodies
    /\ env \in envs
    /\ pc = "start"
    /\ openai = "none"
    /\ calls = <<>>
    /\ logs = <<>>
    /\ response = NoCompletion
    /\ httpResponse = NoResponse
    /\ thrown = <<>>
    /\ gen = "none"
    /\ pulls = 0
    /\ requested = 0
    /\ consumed = <<>>
    /\ output = <<>>

Init == Invoked(BOOLEAN, Bodies, Envs)

\* The requests and environments under which the consumption of the
\* returned stream is explored.
StreamBodies ==
    { [json |-> "rejects", hasMessages |-> FALSE, messages |-> <<>>],
      [json |-> "object", hasMessages |-> TRUE, messages |-> <<>>],
      [json |-> "object", hasMessages |-> TRUE,
       messages |-> <<[role |-> "system", content |-> JsString("override")],
                      [role |-> "user", content |-> JsString("hi")]>>] }

StreamEnvs ==
    { e \in Envs :
        /\ e.OPENAI_MODEL_NAME = JsUndefined
        /\ e.OPENAI_API_KEY # JsString("")
        /\ e.AZURE_OPENAI_API_DEPLOYMENT_NAME # JsString("") }

InitStream == Invoked(BOOLEAN, StreamBodies, StreamEnvs)

\* Leave postChat through its catch block.
Caught(message) ==
    /\ thrown' = Append(thrown, [from |-> "postChat", message |-> message])
    /\ logs' = Append(logs, CatchLog(message))
    /\ httpResponse' = CatchResponse
    /\ pc' = "returned"

\* await request.json() rejects: the body is not JSON.
JsonRejects ==
    /\ pc = "start"
    /\ body.json = "rejects"
    /\ Caught("Unexpected end of JSON input")
    /\ UNCHANGED <<stream, body, env, openai, calls, response,
                   gen, pulls, requested, consumed, output>>

\* await request.json() resolves; postChat runs to its next await (the
\* completion call) or to a return.
JsonResolves ==
    /\ pc = "start"
    /\ body.json # "rejects"
    /\ IF body.json = "null"
       THEN /\ Caught("Cannot destructure property 'messages' of 'requestBody' as it is null.")
            /\ UNCHANGED <<openai, calls>>
       ELSE IF InvalidMessages(body)
       THEN /\ httpResponse' = InvalidMessagesResponse
            /\ pc' = "returned"
            /\ UNCHANGED <<openai, calls, logs, thrown>>
       ELSE IF SelectProvider(env).client = "none"
       THEN /\ Caught(NoProviderMessage)
            /\ UNCHANGED <<openai, calls>>
       ELSE /\ logs' = Append(logs, [level |-> "log", msg |-> SelectProvider(env).log])
            /\ openai' = SelectProvider(env).client
            /\ calls' = Append(calls, CreateParams(body, env, stream))
            /\ pc' = "awaitCreate"
            /\ UNCHANGED <<httpResponse, thrown>>
    /\ UNCHANGED <<stream, body, env, response,
                   gen, pulls, requested, consumed, output>>

\* Variant: a rejected call is issued again.
CreateRejectsWithRetry ==
    /\ pc = "awaitCreate"
    /\ Len(calls) < 3
    /\ calls' = Append(calls, CreateParams(body, env, stream))
    /\ UNCHANGED <<stream, body, env, pc, openai, logs, response, httpResponse,
                   thrown, gen, pulls, requested, consumed, output>>

\* await openai.chat.completions.create(...) rejects, in either mode.
CreateRejects ==
    /\ pc = "awaitCreate"
    /\ Caught("Connection error.")
    /\ UNCHANGED <<stream, body, env, openai, calls, response,
                   gen, pulls, requested, consumed, output>>

\* The non-streaming call resolves with a completion.
CreateResolves ==
    /\ pc = "awaitCreate"
    /\ ~stream
    /\ \E r \in Completions :
        /\ response' = r
        /\ IF Len(r.choices) = 0
           THEN Caught("Cannot read properties of undefined (reading 'message')")
           ELSE /\ httpResponse' = CompletionBody(r)
                /\ pc' = "returned"
                /\ UNCHANGED <<logs, thrown>>
    /\ UNCHANGED <<stream, body, env, openai, calls,
                   gen, pulls, requested, consumed, output>>

\* The streaming call resolves with the provider's stream: postChat wraps
\* createJsonStream(responseStream) in a Readable and returns.
CreateResolvesStream ==
    /\ pc = "awaitCreate"
    /\ stream
    /\ httpResponse' = StreamResponse
    /\ gen' = "suspended"
    /\ pc' = "returned"
    /\ UNCHANGED <<stream, body, env, openai, calls, logs, response,
                   thrown, pulls, requested, consumed, output>>

----------------------------------------------------------------------------
(* createJsonStream *)

\* Variant: an empty delta text counts as content.
HasTextDeltaOrEmpty(chunk) ==
    /\ Len(chunk.choices) > 0
    /\ chunk.choices[1].delta.content.kind = "string"

\* if (!chunk.choices[0]?.delta.content) continue;
HasTextDelta(chunk) ==
    /\ Len(chunk.choices) > 0
    /\ Truthy(chunk.choices[1].delta.content)

\* JSON.stringify of one character of a string.
EscapeChar(c) ==
    CASE c = "\"" -> <<"\\", "\"">>
      [] c = "\\" -> <<"\\", "\\">>
      [] c = "\n" -> <<"\\", "n">>
      [] OTHER -> <<c>>

RECURSIVE EscapeChars(_)
EscapeChars(cs) ==
    IF cs = <<>> THEN <<>> ELSE EscapeChar(Head(cs)) \o EscapeChars(Tail(cs))

\* JSON.stringify of a string: quoted, its characters escaped.
JsonStringifyString(cs) == <<"\"">> \o EscapeChars(cs) \o <<"\"">>

\* JSON.stringify(responseChunk) + '\n', as a sequence of characters (the
\* fixed parts of the object are kept as one element each).
NdjsonLine(chunk) ==
    <<"{\"delta\":{\"content\":">>
        \o JsonStringifyString(chunk.choices[1].delta.content.text)
        \o <<",\"role\":\"assistant\"}}">>
        \o <<"\n">>

\* Variant: the generator goes on to the next chunk without waiting.
AfterYieldEager == "awaiting"

\* The generator's state after a yield: suspended until the consumer's
\* next call of next().
AfterYield == "suspended"

\* The consumer (the Readable built by Readable.from) calls next(): the
\* generator starts or resumes and awaits the next chunk of the provider.
Pull ==
    /\ gen = "suspended"
    /\ gen' = "awaiting"
    /\ pulls' = pulls + 1
    /\ requested' = requested + 1
    /\ UNCHANGED <<stream, body, env, pc, openai, calls, logs, response,
                   httpResponse, thrown, consumed, output>>

\* The provider's stream delivers a chunk: one iteration of the for await
\* loop, up to the continue or the yield.
UpstreamChunk ==
    /\ gen = "awaiting"
    /\ Len(consumed) < MaxChunks
    /\ \E chunk \in Chunks :
        /\ consumed' = Append(consumed, chunk)
        /\ IF HasTextDelta(chunk)
           THEN /\ output' = Append(output, NdjsonLine(chunk))
                /\ gen' = AfterYield
           ELSE /\ output' = output
                /\ gen' = "awaiting"
    /\ requested' = IF gen' = "awaiting" THEN requested + 1 ELSE requested
    /\ UNCHANGED <<stream, body, env, pc, openai, calls, logs, response,
                   httpResponse, thrown, pulls>>

\* The provider's stream ends: the loop and the generator finish.
UpstreamEnds ==
    /\ gen = "awaiting"
    /\ gen' = "done"
    /\ UNCHANGED <<stream, body, env, pc, openai, calls, logs, response,
                   httpResponse, thrown, pulls, requested, consumed, output>>

\* The provider's stream throws while the loop awaits it: the generator
\* throws to its consumer; postChat has returned and catches nothing.
UpstreamThrows ==
    /\ gen = "awaiting"
    /\ gen' = "failed"
    /\ thrown' = Append(thrown, [from |-> "createJsonStream",
                                  message |-> "Connection error."])
    /\ UNCHANGED <<stream, body, env, pc, openai, calls, logs, response,
                   httpResponse, pulls, requested, consumed, output>>

----------------------------------------------------------------------------

\* One invocation of postChat, up to its return.
PostChat ==
    \/ JsonRejects
    \/ JsonResolves
    \/ CreateRejects
    \/ CreateResolves
    \/ CreateResolvesStream

\* The invocation and the consumption of the stream it returned.
Next ==
    \/ PostChat
    \/ Pull
    \/ UpstreamChunk
    \/ UpstreamEnds
    \/ UpstreamThrows

\* postChat over every request and environment of the bounds.
Spec == Init /\ [][PostChat]_vars

\* postChat and createJsonStream, for the requests of StreamBodies.
SpecStream == InitStream /\ [][Next]_vars

----------------------------------------------------------------------------
(* The properties.  They are stated on the inputs and the observable      *)
(* results, without the operators of the model above.                     *)

IsSet(v) == v.kind = "string" /\ v.text # ""

\* The request body parsed to an object, so that `messages` was bound.
BodyParsed == body.json = "object"

\* The messages list is missing or empty, or its last turn has missing or
\* empty content.
MessagesRejected ==
    \/ ~body.hasMessages
    \/ body.messages = <<>>
    \/ body.messages[Len(body.messages)].content \in {JsUndefined, JsString("")}

DirectConfigured == IsSet(env.OPENAI_API_KEY)
ManagedConfigured == IsSet(env.AZURE_OPENAI_API_DEPLOYMENT_NAME)

Status400 ==
    [status |-> 400, body |-> "Invalid or missing messages in the request body"]
Status500 ==
    [status |-> 500,
     body |-> "Service temporarily unavailable. Please try again later."]

HasStatus(r) == "status" \in DOMAIN r

ErrorLog(message) ==
    [level |-> "error",
     msg |-> "Error when processing chat-post request: " \o message]

\* C1: a request whose messages list is missing or empty, or whose last
\* turn has no content, is answered 400 with the fixed body, in both modes
\* and under every provider configuration, and no client is created and no
\* provider call is issued for it.
C1_InvalidMessagesAnswered400 ==
    (BodyParsed /\ MessagesRejected) =>
        /\ openai = "none"
        /\ calls = <<>>
        /\ pc \in {"start", "returned"}
        /\ pc = "returned" => httpResponse = Status400

C1_Witness ==
    /\ pc = "returned"
    /\ stream
    /\ DirectConfigured
    /\ ManagedConfigured
    /\ body.hasMessages
    /\ Len(body.messages) = 2
    /\ body.messages[2].content = JsString("")
    /\ httpResponse = Status400
    /\ calls = <<>>

\* C2: once a request passed validation, the provider was selected once and
\* in order: the direct provider when OPENAI_API_KEY is non-empty (model
\* OPENAI_MODEL_NAME, or gpt-4o-mini when that is unset or empty), also when
\* a deployment name is configured; else the managed provider with the
\* deployment name as the model; else the call fails with no provider
\* contacted.
C2_ProviderSelectedInOrder ==
    (BodyParsed /\ ~MessagesRejected /\ pc # "start") =>
        LET selections == SelectSeq(logs, LAMBDA l : l.level = "log")
        IN  IF DirectConfigured
            THEN /\ openai = "OpenAI"
                 /\ Len(calls) = 1
                 /\ calls[1].client = "OpenAI"
                 /\ calls[1].model = IF IsSet(env.OPENAI_MODEL_NAME)
                                     THEN env.OPENAI_MODEL_NAME.text
                                     ELSE "gpt-4o-mini"
                 /\ selections = <<[level |-> "log", msg |-> "Using OpenAI API"]>>
            ELSE IF ManagedConfigured
            THEN /\ openai = "AzureOpenAI"
                 /\ Len(calls) = 1
                 /\ calls[1].client = "AzureOpenAI"
                 /\ calls[1].model = env.AZURE_OPENAI_API_DEPLOYMENT_NAME.text
                 /\ selections = <<[level |-> "log", msg |-> "Using Azure OpenAI"]>>
            ELSE /\ openai = "none"
                 /\ calls = <<>>
                 /\ selections = <<>>
                 /\ pc = "returned"
                 /\ HasStatus(httpResponse)

C2_Witness ==
    /\ pc = "awaitCreate"
    /\ DirectConfigured
    /\ ManagedConfigured
    /\ env.OPENAI_MODEL_NAME = JsString("")
    /\ openai = "OpenAI"
    /\ calls[1].model = "gpt-4o-mini"

\* C3, as claimed: with neither provider configured, every request is
\* answered 500 and an error is logged.
C3_NoProviderEveryRequest500 ==
    (~DirectConfigured /\ ~ManagedConfigured /\ pc = "returned") =>
        /\ httpResponse = Status500
        /\ \E i \in 1..Len(logs) : logs[i].level = "error"

\* C3, amended: with neither provider configured, every request that passes
\* input validation is answered 500 with the static body, in both modes,
\* the explanatory message is the one error logged, and no call is issued.
C3_NoProviderValidRequest500 ==
    (~DirectConfigured /\ ~ManagedConfigured /\ BodyParsed /\ ~MessagesRejected
        /\ pc # "start") =>
        /\ pc = "returned"
        /\ httpResponse = Status500
        /\ logs = <<ErrorLog("No OpenAI API key or Azure OpenAI deployment provided")>>
        /\ calls = <<>>

C3_Witness ==
    /\ pc = "returned"
    /\ stream
    /\ env.OPENAI_API_KEY = JsString("")
    /\ env.AZURE_OPENAI_API_DEPLOYMENT_NAME = JsUndefined
    /\ BodyParsed
    /\ ~MessagesRejected
    /\ httpResponse = Status500

\* C4: every outbound call carries the fixed system instruction as its
\* first message, followed by exactly the caller's messages in their order;
\* a caller's system message does not precede, replace or remove it.
C4_SystemPromptFirst ==
    /\ pc = "awaitCreate" => Len(calls) = 1
    /\ \A i \in 1..Len(calls) :
        /\ Len(calls[i].messages) = Len(body.messages) + 1
        /\ calls[i].messages[1] =
               [role |-> "system", content |-> JsString(systemPrompt)]
        /\ \A j \in 1..Len(body.messages) :
               calls[i].messages[j + 1] = body.messages[j]

C4_Witness ==
    /\ Len(calls) = 1
    /\ stream
    /\ openai = "AzureOpenAI"
    /\ Len(body.messages) = 2
    /\ body.messages[1].role = "system"
    /\ calls[1].messages[2].role = "system"

\* The texts of the chunks that carry a text delta, in order.
RECURSIVE TextDeltas(_)
TextDeltas(chunks) ==
    IF chunks = <<>> THEN <<>>
    ELSE LET c == Head(chunks)
             carries == /\ c.choices # <<>>
                        /\ c.choices[1].delta.content.kind = "string"
                        /\ c.choices[1].delta.content.text # <<>>
         IN  (IF carries THEN <<c.choices[1].delta.content.text>> ELSE <<>>)
                 \o TextDeltas(Tail(chunks))

\* JSON.parse of the characters between the quotes of a JSON string.
RECURSIVE Unescape(_)
Unescape(cs) ==
    IF cs = <<>> THEN <<>>
    ELSE IF Head(cs) = "\\" /\ Len(cs) >= 2
    THEN <<IF cs[2] = "n" THEN "\n" ELSE cs[2]>> \o Unescape(Tail(Tail(cs)))
    ELSE <<Head(cs)>> \o Unescape(Tail(cs))

\* The positions of a JSON string's characters that are an unescaped quote,
\* a dangling backslash or a raw line break.
RECURSIVE IllFormed(_)
IllFormed(cs) ==
    IF cs = <<>> THEN FALSE
    ELSE IF Head(cs) = "\\" THEN Len(cs) < 2 \/ IllFormed(Tail(Tail(cs)))
    ELSE Head(cs) \in {"\"", "\n"} \/ IllFormed(Tail(cs))

\* A line is {"delta":{"content":<JSON string>,"role":"assistant"}} and one
\* newline, the only one of the line, at its end.
IsDeltaLine(line, text) ==
    /\ Len(line) >= 5
    /\ line[1] = "{\"delta\":{\"content\":"
    /\ line[2] = "\""
    /\ line[Len(line) - 2] = "\""
    /\ line[Len(line) - 1] = ",\"role\":\"assistant\"}}"
    /\ line[Len(line)] = "\n"
    /\ ~IllFormed(SubSeq(line, 3, Len(line) - 3))
    /\ Unescape(SubSeq(line, 3, Len(line) - 3)) = text

RECURSIVE Flatten(_)
Flatten(line) == IF line = <<>> THEN "" ELSE Head(line) \o Flatten(Tail(line))

\* C5: the output of createJsonStream is its input filtered to the chunks
\* that carry a text delta and mapped, in order, to one newline-terminated
\* line each; chunks with no choices, no content or empty content give no
\* line, and there is no other line.
C5_OutputIsFilterMap ==
    /\ Len(output) = Len(TextDeltas(consumed))
    /\ \A i \in 1..Len(output) :
           IsDeltaLine(output[i], TextDeltas(consumed)[i])

C5_Witness ==
    /\ gen = "done"
    /\ Len(consumed) = 3
    /\ \A i \in 1..3 : Len(consumed[i].choices) = 1
    /\ consumed[1].choices[1].delta.content = DeltaString(<<"H", "e", "l">>)
    /\ consumed[2].choices[1].delta.content = DeltaUndefined
    /\ consumed[3].choices[1].delta.content = DeltaString(<<"l", "o">>)
    /\ Len(output) = 2
    /\ Flatten(output[1]) = "{\"delta\":{\"content\":\"Hel\",\"role\":\"assistant\"}}\n"
    /\ Flatten(output[2]) = "{\"delta\":{\"content\":\"lo\",\"role\":\"assistant\"}}\n"

\* The provider resolved the non-streaming call with a completion.
CompletionReturned == "pending" \notin DOMAIN response

\* C6, as claimed: every completion the provider returns to a non-streaming
\* call, also one with no choices, is answered with a jsonBody and no error
\* status.
C6_EveryCompletionAnswered ==
    (~stream /\ pc = "returned" /\ CompletionReturned) =>
        /\ ~HasStatus(httpResponse)
        /\ "jsonBody" \in DOMAIN httpResponse
        /\ httpResponse.jsonBody.message.role = "assistant"
        /\ response.choices # <<>> =>
               httpResponse.jsonBody.message.content
                   = response.choices[1].message.content

\* C6, amended: a completion with at least one choice is answered with
\* {message: {content: <first choice's content>, role: 'assistant'}} and no
\* status, also when that content is null; a completion with no choices is
\* answered 500 with the static body.
C6_CompletionWithChoiceAnswered ==
    (~stream /\ pc = "returned" /\ CompletionReturned) =>
        IF response.choices # <<>>
        THEN httpResponse =
                 [jsonBody |->
                     [message |-> [content |-> response.choices[1].message.content,
                                   role |-> "assistant"]]]
        ELSE httpResponse = Status500

C6_Witness ==
    /\ ~stream
    /\ pc = "returned"
    /\ CompletionReturned
    /\ Len(response.choices) = 1
    /\ response.choices[1].message.content.kind = "null"
    /\ ~HasStatus(httpResponse)
    /\ httpResponse.jsonBody.message.content.kind = "null"

\* C7, as claimed: every failure other than invalid input, also one of the
\* provider's stream while createJsonStream consumes it, is caught, logged
\* with its message and answered 500 with the static body, and no partial
\* result reaches the caller.
C7_EveryFailureCaught ==
    \A i \in 1..Len(thrown) :
        BodyParsed =>
            /\ httpResponse = Status500
            /\ \E j \in 1..Len(logs) : logs[j] = ErrorLog(thrown[i].message)
            /\ output = <<>>

\* C7, amended: every failure other than invalid input that is raised
\* before postChat returns (no provider configured, a rejected completion
\* call in either mode, a completion without choices) is caught, logged with
\* its message and answered 500 with the static body, with no partial
\* result; a failure of the provider's stream during its consumption comes
\* after postChat returned the streaming response: postChat neither catches
\* nor logs it, the response keeps its success status, the lines already
\* emitted stay emitted and the stream ends in the error.
C7_FailureBeforeReturnCaught ==
    /\ gen = "failed" =>
           \E i \in 1..Len(thrown) : thrown[i].from = "createJsonStream"
    /\ \A i \in 1..Len(thrown) :
        /\ (thrown[i].from = "postChat" /\ BodyParsed) =>
               /\ pc = "returned"
               /\ httpResponse = Status500
               /\ logs # <<>>
               /\ logs[Len(logs)] = ErrorLog(thrown[i].message)
               /\ gen = "none"
               /\ output = <<>>
        /\ thrown[i].from = "createJsonStream" =>
               /\ gen = "failed"
               /\ ~HasStatus(httpResponse)
               /\ httpResponse.body = "jsonStream"
               /\ \A j \in 1..Len(logs) : logs[j].level # "error"
               /\ Len(output) = Len(TextDeltas(consumed))

C7_Witness ==
    /\ gen = "failed"
    /\ Len(output) = 2
    /\ Len(thrown) = 1
    /\ ~HasStatus(httpResponse)

\* C8: every malformed or empty input (a body that is not JSON, no messages
\* list, an empty list, a last turn without content) is answered 400 with
\* the static message, never 500.
C8_MalformedInputAnswered400 ==
    (pc = "returned" /\ (body.json = "rejects" \/ (BodyParsed /\ MessagesRejected))) =>
        httpResponse = Status400

\* C9: one invocation issues at most one provider call: none before
\* validation and selection, none when validation fails or no provider is
\* configured, exactly one otherwise, and no further one after the call
\* failed or returned, in either mode.
C9_AtMostOneProviderCall ==
    /\ Len(calls) <= 1
    /\ pc = "start" => calls = <<>>
    /\ pc # "start" =>
           Len(calls) = IF /\ BodyParsed
                           /\ ~MessagesRejected
                           /\ (DirectConfigured \/ ManagedConfigured)
                        THEN 1 ELSE 0

C9_Witness ==
    /\ pc = "returned"
    /\ stream
    /\ Len(calls) = 1
    /\ httpResponse = Status500
    /\ Len(thrown) = 1

\* The chunks consumed that carry no text delta.
Skipped == Len(consumed) - Len(TextDeltas(consumed))

C10_LazyState ==
    /\ requested = pulls + Skipped
    /\ requested <= Len(consumed) + 1
    /\ Len(TextDeltas(consumed)) - Len(output) \in {0, 1}
    /\ Len(output) <= pulls
    /\ pulls <= Len(output) + 1
    /\ gen = "awaiting" =>
           /\ Len(output) = Len(TextDeltas(consumed))
           /\ pulls = Len(output) + 1
           /\ requested = Len(consumed) + 1
    /\ gen \in {"suspended", "done", "failed"} => requested = Len(consumed)
           \/ (gen \in {"done", "failed"} /\ requested = Len(consumed) + 1)

\* C10: createJsonStream asks the provider for its next chunk only when its
\* consumer asked for a line, or after a chunk without text: every line was
\* handed over before the next chunk is requested, at most one chunk with
\* text is ever not yet emitted, a consumer's request gets at most one line,
\* and once the provider's stream ended nothing more is emitted or
\* requested.
C10_LazyUnbuffered ==
    /\ []C10_LazyState
    /\ [][gen = "done" =>
             /\ output' = output
             /\ requested' = requested
             /\ gen' = "done"]_vars
    /\ [][requested' # requested =>
             /\ requested' = requested + 1
             /\ Len(output) = Len(TextDeltas(consumed))
             /\ (pulls' = pulls + 1 \/ Len(consumed') = Len(consumed) + 1)]_vars

C10_Witness ==
    /\ gen = "done"
    /\ pulls = 3
    /\ Len(output) = 2
    /\ Len(consumed) = 3
    /\ requested = 4

====
